---- MODULE Spec2Model ----
(***************************************************************************)
(* The notification subscribe / unsubscribe / dispatch subsystem of        *)
(* api/library/python/iterm2/iterm2/notifications.py.                      *)
(*                                                                         *)
(* The code runs on one asyncio event loop: a coroutine runs without       *)
(* interruption from one await to the next.  Every action below is one     *)
(* such atomic stretch of one coroutine.  The suspension points are the    *)
(* await of the wire round trip in _async_subscribe (line 398), the await  *)
(* of each handler in _async_dispatch_helper (line 451) and the await of   *)
(* async_send_rpc_result (line 458).                                       *)
(*                                                                         *)
(* Python values: a tuple is a TLA+ tuple, a list is a sequence, the       *)
(* handler dict is a function whose DOMAIN is the set of keys present.     *)
(* The names of RPCs and of their arguments, and the string built by       *)
(* _string_rpc_registration_request, are sequences of characters.          *)
(***************************************************************************)
EXTENDS Integers, Sequences, FiniteSets, Bags, TLC

VARIABLES
    handlers,   \* _get_handlers.handlers: key -> list of coroutines
    calls,      \* the API calls: the frame of each pending call, the result
                \* of the call that has just returned
    sent,       \* per call, the wire requests it has sent
    pre,        \* per pending subscribe call, the registry when it was called
    issued,     \* the tokens subscribe calls have returned to user code
    live,       \* the bag of returned tokens not yet passed to unsubscribe,
                \* each with the key its handler was registered under
    requested,  \* per returned token, the wire request of the subscribe call
                \* that returned it
    dpc,        \* where _async_dispatch_helper is
    dmsg,       \* the message being dispatched
    dref,       \* the list object `handlers` of line 448: the key it is stored under
    didx,       \* the position of the list iterator of line 449
    dsub,       \* sub_notification of line 448: what the handlers are passed
    dstart,     \* the contents of that list when the dispatch began
    invoked,    \* the handlers awaited so far for this message, in order
    dreply,     \* the RPC results sent by the dispatcher for this message
    dret,       \* the value returned by _async_dispatch_helper
    dmutated,   \* whether the registry changed since this dispatch began
    remote,     \* the subscriptions the remote side holds for this connection
    wire,       \* the responses of the remote side in flight, oldest first
    monitor,    \* the NewSessionMonitor objects
    announced   \* the new sessions announced so far, oldest first

vars == <<handlers, calls, sent, pre, issued, live, requested, dpc, dmsg, dref, didx, dsub,
          dstart, invoked, dreply, dret, dmutated, remote, wire, monitor, announced>>

\* The remote side, for the specifications that leave its answers open.
remoteVars == <<remote, wire>>

\* The monitors, for the specifications without one.
monitorVars == <<monitor, announced>>

----------------------------------------------------------------------------
\* Bounds of the model

\* The number of subscribe / unsubscribe calls a behaviour makes.
MaxCalls == 3

Calls == 1..MaxCalls

\* The number of new sessions the remote side announces in a behaviour.
MaxSessions == 2

\* The identifier of a new session: sessions are numbered as they are created.
SessionIds == 1..MaxSessions

----------------------------------------------------------------------------
\* Values

\* Python None where a string is expected (a session, a status)
None == "<None>"
\* key=None and the falsy values of `if key:`
NoKey == <<>>
\* rpc_registration_request=None
NoRpc == <<>>
\* no message
NoMsg == <<>>
\* variable_monitor_request=None, profile_change_request=None
NoDetail == <<>>

\* The coroutines user code passes as callbacks.
Callbacks == {"h1", "h2"}

\* The NewSessionMonitor objects of a script, and the closure `callback`
\* each one defines in __aenter__ (line 578).
Monitors == {"m1", "m2"}
MonitorCallback == [m \in Monitors |-> IF m = "m1" THEN "callback1" ELSE "callback2"]

\* Session identifiers scripts subscribe for.
Sessions == {"S1"}

\* Session identifiers carried by inbound messages.
MessageSessions == {"S1", "S2"}

\* Variable scopes, variable names and object identifiers of variable monitors.
VariableScopes == {"SESSION"}
VariableNames == {"jobName"}
Identifiers == {"id1"}

\* Profile GUIDs.
Guids == {"G1"}

NOTIFY_ON_KEYSTROKE == "NOTIFY_ON_KEYSTROKE"
NOTIFY_ON_NEW_SESSION == "NOTIFY_ON_NEW_SESSION"
NOTIFY_ON_SERVER_ORIGINATED_RPC == "NOTIFY_ON_SERVER_ORIGINATED_RPC"
NOTIFY_ON_VARIABLE_CHANGE == "NOTIFY_ON_VARIABLE_CHANGE"
NOTIFY_ON_BROADCAST_CHANGE == "NOTIFY_ON_BROADCAST_CHANGE"
NOTIFY_ON_PROFILE_CHANGE == "NOTIFY_ON_PROFILE_CHANGE"

\* NotificationResponse.Status values the remote side answers with.
Statuses == {"OK", "ALREADY_SUBSCRIBED", "REQUEST_MALFORMED"}

\* The characters of the strings below, in code point order (what the string
\* comparison of sorted(), line 379, goes by).
Alphabet == <<"(", ")", ",", "a", "b", "c", "f", "g">>

\* The RPCs scripts register: name, argument names as the script lists them
\* and the names given defaults (none; one for argument a; one for a name
\* that is not an argument).  Names are identifiers, as the names of Python
\* functions and of their parameters are.
RpcRegistrations ==
    {[name |-> <<"f">>, arguments |-> << <<"a">>, <<"b">> >>, defaults |-> {}],
     [name |-> <<"f">>, arguments |-> << <<"b">>, <<"a">> >>, defaults |-> {<<"a">>}],
     [name |-> <<"f">>, arguments |-> << <<"b">>, <<"a">> >>, defaults |-> {<<"c">>}]}

\* The RPCs the remote side invokes: f(b, a), f(ab) and g(a, b).
RpcInvocations == {[name |-> <<"f">>, arguments |-> << <<"b">>, <<"a">> >>],
                   [name |-> <<"f">>, arguments |-> << <<"a", "b">> >>],
                   [name |-> <<"g">>, arguments |-> << <<"a">>, <<"b">> >>]}

RequestIds == {"r1", "r2"}

\* The empty dict
EmptyRegistry == [k \in {} |-> <<>>]

Range(s) == {s[i] : i \in 1..Len(s)}

----------------------------------------------------------------------------
\* Python built-ins used by the code

\* A list.remove that drops the last item instead of the first one equal to x.
ListRemove_DropsLast(list, x) == SubSeq(list, 1, Len(list) - 1)

\* list.remove(x): removes the first item equal to x.  The callers below only
\* use it when x is in the list (Python raises ValueError otherwise).
ListRemove(list, x) ==
    LET i == CHOOSE j \in 1..Len(list) :
                 list[j] = x /\ \A m \in 1..(j - 1) : list[m] # x
    IN  SubSeq(list, 1, i - 1) \o SubSeq(list, i + 1, Len(list))

\* ord(ch)
Ord(ch) == CHOOSE i \in 1..Len(Alphabet) : Alphabet[i] = ch

\* s < t on strings
RECURSIVE StrLess(_, _)
StrLess(s, t) ==
    IF t = <<>> THEN FALSE
    ELSE IF s = <<>> THEN TRUE
    ELSE IF Head(s) # Head(t) THEN Ord(Head(s)) < Ord(Head(t))
    ELSE StrLess(Tail(s), Tail(t))

RECURSIVE Insert(_, _)
Insert(s, x) ==
    IF s = <<>> THEN <<x>>
    ELSE IF StrLess(x, Head(s)) THEN <<x>> \o s
    ELSE <<Head(s)>> \o Insert(Tail(s), x)

\* The names left in the order given.
Sorted_AsGiven(s) == s

\* sorted(names)
RECURSIVE Sorted(_)
Sorted(s) == IF s = <<>> THEN <<>> ELSE Insert(Sorted(Tail(s)), Head(s))

\* sep.join(list)
RECURSIVE Join(_, _)
Join(list, sep) ==
    IF list = <<>> THEN <<>>
    ELSE IF Len(list) = 1 THEN Head(list)
    ELSE Head(list) \o sep \o Join(Tail(list), sep)

----------------------------------------------------------------------------
\* Private helpers of notifications.py

_string_rpc_registration_request(rpc) ==
    IF rpc = NoRpc THEN NoRpc
    ELSE rpc.name \o <<"(">> \o Join(Sorted(rpc.arguments), <<",">>) \o <<")">>

\* The key built by _register_notification_handler and
\* _unregister_notification_handler (lines 526-529 and 541-544).
HandlerKey(session, rpc_registration_request, notification_type) ==
    IF rpc_registration_request = NoRpc
    THEN <<session, notification_type>>
    ELSE <<session, notification_type, rpc_registration_request>>

_register_notification_handler_impl(reg, key, coro) ==
    IF key \in DOMAIN reg
    THEN [reg EXCEPT ![key] = Append(@, coro)]
    ELSE reg @@ (key :> <<coro>>)

_register_notification_handler(reg, session, rpc_registration_request, notification_type, coro) ==
    _register_notification_handler_impl(
        reg, HandlerKey(session, rpc_registration_request, notification_type), coro)

_unregister_notification_handler_impl(reg, key, coro) ==
    IF key \in DOMAIN reg /\ coro \in Range(reg[key])
    THEN [reg EXCEPT ![key] = ListRemove(@, coro)]
    ELSE reg

_unregister_notification_handler(reg, session, rpc_registration_request, notification_type, coro) ==
    _unregister_notification_handler_impl(
        reg, HandlerKey(session, rpc_registration_request, notification_type), coro)

\* del _get_handlers()[key]
DictDelete(reg, key) == [k \in DOMAIN reg \ {key} |-> reg[k]]

----------------------------------------------------------------------------
\* Inbound messages.  message.notification is a tagged union: `field` names
\* the one field HasField finds.

KeystrokeMessages ==
    [field : {"keystroke_notification"}, session : MessageSessions,
     rpc : {NoRpc}, request_id : {None}]

NewSessionMessages ==
    [field : {"new_session_notification"}, uniqueIdentifier : SessionIds]

RpcMessages ==
    [field : {"server_originated_rpc_notification"}, session : {None},
     rpc : RpcInvocations, request_id : RequestIds]

BroadcastMessages == [field : {"broadcast_domains_changed"}]

VariableChangedMessages ==
    [field : {"variable_changed_notification"}, scope : VariableScopes,
     identifier : Identifiers \cup {""}, name : VariableNames]

ProfileChangedMessages ==
    [field : {"profile_changed_notification"}, guid : Guids]

\* A notification of a kind _get_handler_key_from_notification has no branch
\* for.
OtherMessages == [field : {"other_notification"}]

\* The key half of _get_handler_key_from_notification's result.
_get_handler_key_from_notification(notification) ==
    IF notification.field = "keystroke_notification"
    THEN <<notification.session, NOTIFY_ON_KEYSTROKE>>
    ELSE IF notification.field = "new_session_notification"
    THEN <<None, NOTIFY_ON_NEW_SESSION>>
    ELSE IF notification.field = "server_originated_rpc_notification"
    THEN <<None, NOTIFY_ON_SERVER_ORIGINATED_RPC,
           _string_rpc_registration_request(notification.rpc)>>
    ELSE IF notification.field = "broadcast_domains_changed"
    THEN <<None, NOTIFY_ON_BROADCAST_CHANGE>>
    ELSE IF notification.field = "variable_changed_notification"
    THEN <<notification.scope, notification.identifier, notification.name,
           NOTIFY_ON_VARIABLE_CHANGE>>
    ELSE IF notification.field = "profile_changed_notification"
    THEN <<notification.guid, NOTIFY_ON_PROFILE_CHANGE>>
    ELSE NoKey

\* The enclosing Notification message.
Wrapper == "Notification"

\* The other half of that result: the sub-notification held in the field
\* found where the code rebinds `notification` to it (lines 467, 485, 504),
\* and the message it was given where it does not (lines 495-498, 505-507).
SubNotification(notification) ==
    IF notification.field \in {"keystroke_notification",
                               "new_session_notification",
                               "variable_changed_notification"}
    THEN notification.field
    ELSE Wrapper

\* A lookup that prefers the handlers of all sessions to those of the
\* message's session.
_get_notification_handlers_GlobalFirst(reg, message) ==
    LET key == _get_handler_key_from_notification(message)
        fallback == <<None, key[2]>>
    IN  IF key = NoKey THEN NoKey
        ELSE IF fallback \in DOMAIN reg THEN fallback
        ELSE IF key \in DOMAIN reg THEN key
        ELSE NoKey

\* _get_notification_handlers returns a list object: the one stored in the
\* dict under the key named here, or a fresh empty list (NoKey).
_get_notification_handlers(reg, message) ==
    LET key == _get_handler_key_from_notification(message)
        fallback == <<None, key[2]>>
    IN  IF key = NoKey THEN NoKey
        ELSE IF key \in DOMAIN reg THEN key
        ELSE IF fallback \in DOMAIN reg THEN fallback
        ELSE NoKey

\* The contents of the list object the dispatcher holds.
ListOf(reg, ref) == IF ref = NoKey THEN <<>> ELSE reg[ref]

\* An error reply for every RPC invocation, handled or not.
NeedsRpcError_IgnoresHandlers(list, message) ==
    message.field = "server_originated_rpc_notification"

\* Line 453: `not handlers and message.notification.HasField(...)`.
NeedsRpcError(list, message) ==
    list = <<>> /\ message.field = "server_originated_rpc_notification"

\* Lines 456-458: the arguments of async_send_rpc_result.
RpcErrorResult(message) ==
    [request_id |-> message.request_id,
     is_exception |-> TRUE,
     function |-> _string_rpc_registration_request(message.rpc),
     key |-> _get_handler_key_from_notification(message)]

----------------------------------------------------------------------------
\* _async_subscribe, as pure functions of the registry

\* A request that always addresses all sessions.
TransformedSession_AlwaysAll(session) == "all"

\* Line 384
TransformedSession(session) == IF session # None THEN session ELSE "all"

\* A subscribe that leaves the registration for after the acknowledgment.
LocalRegistration_AfterAck(reg, subscribe, notification_type, callback, session, rpc_registration_request, key) == reg

\* Lines 388-396: the optimistic local registration.
LocalRegistration(reg, subscribe, notification_type, callback, session, rpc_registration_request, key) ==
    IF subscribe
    THEN IF key # NoKey
         THEN _register_notification_handler_impl(reg, key, callback)
         ELSE _register_notification_handler(
                  reg, session,
                  _string_rpc_registration_request(rpc_registration_request),
                  notification_type, callback)
    ELSE reg

\* A reverse request that asks to subscribe.
NotificationRequest_AlwaysSubscribes(subscribe, notification_type, session, rpc_registration_request, variable_monitor_request, profile_change_request) ==
    [subscribe |-> TRUE,
     notification_type |-> notification_type,
     session |-> TransformedSession(session),
     rpc_registration_request |-> rpc_registration_request,
     variable_monitor_request |-> variable_monitor_request,
     profile_change_request |-> profile_change_request]

\* Lines 398-406: the request handed to iterm2.rpc.async_notification_request.
\* (keystroke_monitor_request is None in every call made here.)
NotificationRequest(subscribe, notification_type, session, rpc_registration_request, variable_monitor_request, profile_change_request) ==
    [subscribe |-> subscribe,
     notification_type |-> notification_type,
     session |-> TransformedSession(session),
     rpc_registration_request |-> rpc_registration_request,
     variable_monitor_request |-> variable_monitor_request,
     profile_change_request |-> profile_change_request]

\* ALREADY_SUBSCRIBED taken for a failure.
SubscribeSucceeded_OnlyOk(status) == status = "OK"

\* Lines 408 and 412-413: the statuses for which subscribe returns a token.
SubscribeSucceeded(status) == status = "OK" \/ status = "ALREADY_SUBSCRIBED"

\* Lines 414-417: the token a successful subscribe returns.
SubscribeToken(key, session, notification_type, callback) ==
    IF key # NoKey
    THEN <<key, callback>>
    ELSE <<<<session, notification_type>>, callback>>

\* Lines 426-434: undoing a registration.
LocalUnregistration(reg, notification_type, callback, session, rpc_registration_request, key) ==
    IF key # NoKey
    THEN _unregister_notification_handler_impl(reg, key, callback)
    ELSE _unregister_notification_handler(
             reg, session,
             _string_rpc_registration_request(rpc_registration_request),
             notification_type, callback)

\* An unsubscribe that puts the handler back when the remote side refuses.
SubscribeOutcome_ReAddsOnRefusal(reg, call, status) ==
    IF call.subscribe
    THEN IF SubscribeSucceeded(status)
         THEN [handlers |-> reg, result |-> "token",
               token |-> SubscribeToken(call.key, call.session,
                                        call.notification_type, call.callback)]
         ELSE [handlers |-> LocalUnregistration(reg, call.notification_type,
                                call.callback, call.session, call.rpc, call.key),
               result |-> "SubscriptionException", token |-> NoKey]
    ELSE IF status = "OK"
         THEN [handlers |-> LocalUnregistration(reg, call.notification_type,
                                call.callback, call.session, call.rpc, call.key),
               result |-> "ok", token |-> call.token]
         ELSE [handlers |-> _register_notification_handler_impl(
                                reg, call.token[1], call.callback),
               result |-> "SubscriptionException", token |-> call.token]

\* Lines 407-440: what _async_subscribe does with the response.
\* result is "token" (line 415/417), "ok" (line 438) or the exception raised.
SubscribeOutcome(reg, call, status) ==
    IF call.subscribe
    THEN IF SubscribeSucceeded(status)
         THEN [handlers |-> reg, result |-> "token",
               token |-> SubscribeToken(call.key, call.session,
                                        call.notification_type, call.callback)]
         ELSE [handlers |-> LocalUnregistration(reg, call.notification_type,
                                call.callback, call.session, call.rpc, call.key),
               result |-> "SubscriptionException", token |-> NoKey]
    ELSE IF status = "OK"
         THEN [handlers |-> LocalUnregistration(reg, call.notification_type,
                                call.callback, call.session, call.rpc, call.key),
               result |-> "ok", token |-> call.token]
         ELSE [handlers |-> reg, result |-> "SubscriptionException",
               token |-> call.token]

----------------------------------------------------------------------------
\* State

NoCall ==
    [op |-> "none", pc |-> "idle", subscribe |-> FALSE,
     notification_type |-> None, callback |-> None, session |-> None,
     rpc |-> NoRpc, variable_monitor_request |-> NoDetail,
     profile_change_request |-> NoDetail, key |-> NoKey, token |-> NoKey,
     status |-> None, result |-> "none"]

\* A call whose result has been observed.
Finished == [NoCall EXCEPT !.op = "finished", !.pc = "finished"]

NoSnapshot == [valid |-> FALSE, reg |-> EmptyRegistry]

\* NewSessionMonitor.__init__ (lines 573-575): an empty queue, no token yet.
NoMonitor ==
    [pc |-> "constructed", call |-> 0, token |-> NoKey, queue |-> <<>>,
     got |-> <<>>]

Init ==
    /\ handlers = EmptyRegistry
    /\ calls = [c \in Calls |-> NoCall]
    /\ sent = [c \in Calls |-> <<>>]
    /\ pre = [c \in Calls |-> NoSnapshot]
    /\ issued = {}
    /\ live = EmptyBag
    /\ requested = {}
    /\ dpc = "idle"
    /\ dmsg = NoMsg
    /\ dref = NoKey
    /\ didx = 0
    /\ dsub = None
    /\ dstart = <<>>
    /\ invoked = <<>>
    /\ dreply = <<>>
    /\ dret = None
    /\ dmutated = FALSE
    /\ remote = {}
    /\ wire = <<>>
    /\ monitor = [m \in Monitors |-> NoMonitor]
    /\ announced = <<>>

\* Calls are numbered in the order they are made.
NextCall(c) ==
    /\ calls[c].op = "none"
    /\ \A b \in Calls : b < c => calls[b].op # "none"

\* The result of a call, and the requests it sent, are kept for the one state
\* that follows its return or raise: every later step drops them.
SweptCalls == [c \in Calls |-> IF calls[c].pc = "returned" THEN Finished
                                                            ELSE calls[c]]
SweptSent == [c \in Calls |-> IF calls[c].pc = "returned" THEN <<>>
                                                           ELSE sent[c]]

\* What a step of a subscribe / unsubscribe coroutine means for the record
\* kept of the dispatcher: the record of a dispatch that has returned is
\* dropped, and a dispatch in progress notes a change of the registry.
\* `deleted` is the key removed from the dict by this step (NoKey if none):
\* the list object the dispatcher holds is then no longer the dict's.
DispatcherSees(newHandlers, deleted) ==
    IF dpc = "returned"
    THEN /\ dpc' = "idle"
         /\ dmsg' = NoMsg
         /\ dref' = NoKey
         /\ didx' = 0
         /\ dsub' = None
         /\ dstart' = <<>>
         /\ invoked' = <<>>
         /\ dreply' = <<>>
         /\ dret' = None
         /\ dmutated' = FALSE
    ELSE /\ dref' = IF deleted # NoKey /\ dref = deleted THEN NoKey ELSE dref
         /\ dmutated' = (dmutated \/ (dpc # "idle" /\ newHandlers # handlers))
         /\ UNCHANGED <<dpc, dmsg, didx, dsub, dstart, invoked, dreply, dret>>

----------------------------------------------------------------------------
\* Subscribing

\* _async_subscribe from its call to the await of line 398.
AsyncSubscribeBegin(c, notification_type, callback, session, rpc_registration_request, variable_monitor_request, key, profile_change_request) ==
    LET reg == LocalRegistration(handlers, TRUE, notification_type, callback,
                                 session, rpc_registration_request, key)
    IN  /\ NextCall(c)
        /\ handlers' = reg
        /\ calls' = [SweptCalls EXCEPT ![c] =
               [op |-> "subscribe", pc |-> "await", subscribe |-> TRUE,
                notification_type |-> notification_type,
                callback |-> callback, session |-> session,
                rpc |-> rpc_registration_request,
                variable_monitor_request |-> variable_monitor_request,
                profile_change_request |-> profile_change_request,
                key |-> key,
                token |-> NoKey, status |-> None, result |-> "none"]]
        /\ sent' = [SweptSent EXCEPT ![c] =
               <<NotificationRequest(TRUE, notification_type, session,
                                     rpc_registration_request,
                                     variable_monitor_request,
                                     profile_change_request)>>]
        /\ pre' = [pre EXCEPT ![c] = [valid |-> TRUE, reg |-> handlers]]
        /\ UNCHANGED <<issued, live, requested>>
        /\ DispatcherSees(reg, NoKey)

\* A subscribe call that raises before it reaches _async_subscribe.
SubscribeRaises(c, notification_type, callback, exception) ==
    /\ NextCall(c)
    /\ calls' = [SweptCalls EXCEPT ![c] =
           [NoCall EXCEPT !.op = "subscribe", !.pc = "returned",
                          !.subscribe = TRUE,
                          !.notification_type = notification_type,
                          !.callback = callback, !.result = exception]]
    /\ sent' = SweptSent
    /\ UNCHANGED <<handlers, pre, issued, live, requested>>
    /\ DispatcherSees(handlers, NoKey)

async_subscribe_to_new_session_notification(c) ==
    \E callback \in Callbacks :
        AsyncSubscribeBegin(c, NOTIFY_ON_NEW_SESSION, callback, None, NoRpc,
                            NoDetail, NoKey, NoDetail)

async_subscribe_to_keystroke_notification(c) ==
    \E callback \in Callbacks, session \in Sessions \cup {None} :
        AsyncSubscribeBegin(c, NOTIFY_ON_KEYSTROKE, callback, session, NoRpc,
                            NoDetail, NoKey, NoDetail)

\* An API that never checks the names of the defaults.
DefaultsAccepted_Unchecked(arguments, defaults) == TRUE

\* Lines 299-302: every name of defaults is asserted to be in arguments.
DefaultsAccepted(arguments, defaults) ==
    \A name \in defaults : name \in Range(arguments)

\* Lines 287-309: the RPCRegistrationRequest built.  (Of defaults, a dict
\* from argument name to path, the names are kept.)
RPCRegistrationRequest(name, arguments, defaults) ==
    [name |-> name, arguments |-> arguments, defaults |-> defaults]

async_subscribe_to_server_originated_rpc_notification(c) ==
    \E callback \in Callbacks, rpc \in RpcRegistrations :
        IF DefaultsAccepted(rpc.arguments, rpc.defaults)
        THEN AsyncSubscribeBegin(c, NOTIFY_ON_SERVER_ORIGINATED_RPC, callback, None,
                 RPCRegistrationRequest(rpc.name, rpc.arguments, rpc.defaults),
                 NoDetail, NoKey, NoDetail)
        ELSE SubscribeRaises(c, NOTIFY_ON_SERVER_ORIGINATED_RPC, callback,
                             "AssertionError")

async_subscribe_to_broadcast_domains_change_notification(c) ==
    \E callback \in Callbacks :
        AsyncSubscribeBegin(c, NOTIFY_ON_BROADCAST_CHANGE, callback, None, NoRpc,
                            NoDetail, NoKey, NoDetail)

\* Lines 334-340
VariableMonitorRequest(scope, name, identifier) ==
    [name |-> name, scope |-> scope,
     identifier |-> IF identifier # None THEN identifier ELSE ""]

async_subscribe_to_variable_change_notification(c) ==
    \E callback \in Callbacks, scope \in VariableScopes, name \in VariableNames,
       identifier \in Identifiers \cup {None} :
        LET request == VariableMonitorRequest(scope, name, identifier)
            key == <<request.scope, request.identifier, request.name,
                     NOTIFY_ON_VARIABLE_CHANGE>>
        IN  AsyncSubscribeBegin(c, NOTIFY_ON_VARIABLE_CHANGE, callback, None,
                                NoRpc, request, key, NoDetail)

\* Line 361 reads iterm2.api_PB2, where every other line reads iterm2.api_pb2.
\* The attribute is looked up in the iterm2 package: the lookup raises
\* AttributeError, or yields a module with the constants of api_pb2.
ApiPB2 == {"AttributeError", NOTIFY_ON_PROFILE_CHANGE}

async_subscribe_to_profile_change_notification(c) ==
    \E callback \in Callbacks, guid \in Guids, found \in ApiPB2 :
        IF found = "AttributeError"
        THEN SubscribeRaises(c, NOTIFY_ON_PROFILE_CHANGE, callback,
                             "AttributeError")
        ELSE AsyncSubscribeBegin(c, found, callback, None, NoRpc, NoDetail,
                                 <<guid, found>>, [guid |-> guid])

\* The key the handler of subscribe call `call` was registered under
\* (lines 389-396).
RegisteredKey(call) ==
    IF call.key # NoKey THEN call.key
    ELSE HandlerKey(call.session, _string_rpc_registration_request(call.rpc),
                    call.notification_type)

\* _async_subscribe from the response (line 407), whose status is `status`,
\* to its return or raise.
AsyncSubscribeResponse(c, status) ==
    LET out == SubscribeOutcome(handlers, calls[c], status)
    IN  /\ calls[c].pc = "await"
        /\ handlers' = out.handlers
        /\ calls' = [SweptCalls EXCEPT ![c].pc = "returned",
                                       ![c].status = status,
                                       ![c].result = out.result,
                                       ![c].token = out.token]
        /\ IF out.result = "token"
           THEN /\ issued' = issued \cup {out.token}
                /\ live' = live (+) SetToBag({[token |-> out.token,
                                               key |-> RegisteredKey(calls[c])]})
                /\ requested' = requested \cup
                       {[token |-> out.token, request |-> sent[c][1]]}
           ELSE UNCHANGED <<issued, live, requested>>
        /\ DispatcherSees(out.handlers, NoKey)
        /\ sent' = SweptSent
        /\ pre' = [pre EXCEPT ![c] = NoSnapshot]

\* The response to a pending call arrives, with any status.
AsyncSubscribeEnd(c) ==
    /\ calls[c].pc = "await"
    /\ \E status \in Statuses : AsyncSubscribeResponse(c, status)

----------------------------------------------------------------------------
\* Unsubscribing

\* The subscriptions a call of unsubscribe(token) may be meant to reverse:
\* tokens are compared by value.
LiveWith(token) == {e \in BagToSet(live) : e.token = token}

\* Line 47: the key is taken to have the default shape by its length.
IsDefaultShape(key) == Len(key) = 2

\* A request rebuilt with an empty identifier.
VariableMonitorRequestOfKey_NoIdentifier(key) ==
    [name |-> key[3], scope |-> key[1], identifier |-> ""]

\* Lines 57-61: the VariableMonitorRequest rebuilt from a variable-change key.
VariableMonitorRequestOfKey(key) ==
    [name |-> key[3], scope |-> key[1], identifier |-> key[2]]

\* async_unsubscribe from its call to its first await, return or raise.
AsyncUnsubscribeBegin(c, token) ==
    LET key == token[1]
        coro == token[2]
        base == [NoCall EXCEPT !.op = "unsubscribe", !.token = token,
                               !.callback = coro]
    IN  IF key \notin DOMAIN handlers
        THEN \* line 41 raises KeyError
             /\ calls' = [SweptCalls EXCEPT ![c] =
                    [base EXCEPT !.pc = "returned", !.result = "KeyError"]]
             /\ sent' = SweptSent
             /\ UNCHANGED handlers
             /\ DispatcherSees(handlers, NoKey)
        ELSE IF coro \notin Range(handlers[key])
        THEN \* line 42 raises ValueError
             /\ calls' = [SweptCalls EXCEPT ![c] =
                    [base EXCEPT !.pc = "returned", !.result = "ValueError"]]
             /\ sent' = SweptSent
             /\ UNCHANGED handlers
             /\ DispatcherSees(handlers, NoKey)
        ELSE LET coros == ListRemove(handlers[key], coro)
             IN  IF coros # <<>>
                 THEN \* lines 43-44
                      /\ handlers' = [handlers EXCEPT ![key] = coros]
                      /\ calls' = [SweptCalls EXCEPT ![c] =
                             [base EXCEPT !.pc = "returned", !.result = "ok"]]
                      /\ sent' = SweptSent
                      /\ DispatcherSees(handlers', NoKey)
                 ELSE \* line 46, then the reverse request
                      /\ handlers' = DictDelete(handlers, key)
                      /\ DispatcherSees(handlers', key)
                      /\ IF IsDefaultShape(key)
                         THEN \* lines 47-54, to the await of line 398
                              /\ calls' = [SweptCalls EXCEPT ![c] =
                                     [base EXCEPT !.pc = "await",
                                                  !.notification_type = key[2],
                                                  !.session = key[1]]]
                              /\ sent' = [SweptSent EXCEPT ![c] =
                                     <<NotificationRequest(FALSE, key[2], key[1],
                                           NoRpc, NoDetail, NoDetail)>>]
                         ELSE IF Len(key) = 4 /\ key[4] = NOTIFY_ON_VARIABLE_CHANGE
                         THEN \* lines 56-68, to the await of line 398
                              LET request == VariableMonitorRequestOfKey(key)
                              IN  /\ calls' = [SweptCalls EXCEPT ![c] =
                                         [base EXCEPT
                                            !.pc = "await",
                                            !.notification_type = key[4],
                                            !.variable_monitor_request = request,
                                            !.key = key]]
                                  /\ sent' = [SweptSent EXCEPT ![c] =
                                         <<NotificationRequest(FALSE, key[4], None,
                                               NoRpc, request, NoDetail)>>]
                         ELSE \* line 71: no key of another shape is handled
                              /\ calls' = [SweptCalls EXCEPT ![c] =
                                     [base EXCEPT !.pc = "returned",
                                                  !.result = "AssertionError"]]
                              /\ sent' = SweptSent

async_unsubscribe(c) ==
    /\ NextCall(c)
    /\ \E token \in issued :
        /\ AsyncUnsubscribeBegin(c, token)
        /\ IF LiveWith(token) = {}
           THEN live' = live
           ELSE \E e \in LiveWith(token) : live' = live (-) SetToBag({e})
    /\ UNCHANGED <<pre, issued, requested>>

----------------------------------------------------------------------------
\* Dispatching

\* bool(handlers) of line 460
PyBool(list) == IF list # <<>> THEN "True" ELSE "False"

\* The `for handler in handlers` loop of line 449 from the point where the
\* list iterator of the list object ref is at position idx, up to the next
\* await or the return: a list iterator yields item idx while idx < len(list)
\* and stops otherwise.  sofar are the handlers awaited before.
DispatchLoop(message, ref, idx, sofar) ==
    LET list == ListOf(handlers, ref)
    IN  IF idx < Len(list)
        THEN \* line 451: await handler(connection, sub_notification)
             /\ invoked' = Append(sofar, list[idx + 1])
             /\ didx' = idx + 1
             /\ dpc' = "handler"
             /\ dreply' = <<>>
             /\ dret' = None
        ELSE IF NeedsRpcError(list, message)
        THEN \* line 458: await async_send_rpc_result(...)
             /\ invoked' = sofar
             /\ didx' = idx
             /\ dpc' = "reply"
             /\ dreply' = <<RpcErrorResult(message)>>
             /\ dret' = None
        ELSE \* line 460
             /\ invoked' = sofar
             /\ didx' = idx
             /\ dpc' = "returned"
             /\ dreply' = <<>>
             /\ dret' = PyBool(list)

\* The transport hands the next message to _async_dispatch_helper, which
\* runs to its first await.
DispatchBegin(messages) ==
    /\ dpc \in {"idle", "returned"}
    /\ \E message \in messages :
        LET ref == _get_notification_handlers(handlers, message)
        IN  /\ dmsg' = message
            /\ dref' = ref
            /\ dsub' = IF ref = NoKey THEN None ELSE SubNotification(message)
            /\ dstart' = ListOf(handlers, ref)
            /\ dmutated' = FALSE
            /\ DispatchLoop(message, ref, 0, <<>>)
    /\ calls' = SweptCalls
    /\ sent' = SweptSent
    /\ UNCHANGED <<handlers, pre, issued, live, requested>>

\* The awaited handler completes and the loop goes on.
HandlerReturns ==
    /\ dpc = "handler"
    /\ DispatchLoop(dmsg, dref, didx, invoked)
    /\ calls' = SweptCalls
    /\ sent' = SweptSent
    /\ UNCHANGED <<handlers, pre, issued, live, requested, dmsg, dref, dsub,
                   dstart, dmutated>>

\* async_send_rpc_result completes and line 460 returns.
DispatchReplySent ==
    /\ dpc = "reply"
    /\ dpc' = "returned"
    /\ dret' = PyBool(ListOf(handlers, dref))
    /\ calls' = SweptCalls
    /\ sent' = SweptSent
    /\ UNCHANGED <<handlers, pre, issued, live, requested, dmsg, dref, didx,
                   dsub, dstart,
                   invoked, dreply, dmutated>>

\* Scripts that subscribe to keystrokes, for one session or for all, while
\* keystroke notifications arrive.
Next ==
    \/ \E c \in Calls : async_subscribe_to_keystroke_notification(c)
       /\ UNCHANGED <<remoteVars, monitorVars>>
    \/ \E c \in Calls : AsyncSubscribeEnd(c)
       /\ UNCHANGED <<remoteVars, monitorVars>>
    \/ \E c \in Calls : async_unsubscribe(c)
       /\ UNCHANGED <<remoteVars, monitorVars>>
    \/ DispatchBegin(KeystrokeMessages)
       /\ UNCHANGED <<remoteVars, monitorVars>>
    \/ HandlerReturns
       /\ UNCHANGED <<remoteVars, monitorVars>>

Spec == Init /\ [][Next]_vars

\* Scripts that register RPCs while the remote side invokes RPCs.
NextRpc ==
    \/ \E c \in Calls : async_subscribe_to_server_originated_rpc_notification(c)
       /\ UNCHANGED <<remoteVars, monitorVars>>
    \/ \E c \in Calls : AsyncSubscribeEnd(c)
       /\ UNCHANGED <<remoteVars, monitorVars>>
    \/ \E c \in Calls : async_unsubscribe(c)
       /\ UNCHANGED <<remoteVars, monitorVars>>
    \/ DispatchBegin(RpcMessages \cup OtherMessages)
       /\ UNCHANGED <<remoteVars, monitorVars>>
    \/ HandlerReturns
       /\ UNCHANGED <<remoteVars, monitorVars>>
    \/ DispatchReplySent
       /\ UNCHANGED <<remoteVars, monitorVars>>

SpecRpc == Init /\ [][NextRpc]_vars

\* Scripts that monitor a variable, the profiles and the broadcast domains
\* while the notifications of these kinds arrive.
KindMessages == VariableChangedMessages \cup ProfileChangedMessages \cup BroadcastMessages

NextKinds ==
    \/ \E c \in Calls : async_subscribe_to_variable_change_notification(c)
       /\ UNCHANGED <<remoteVars, monitorVars>>
    \/ \E c \in Calls : async_subscribe_to_profile_change_notification(c)
       /\ UNCHANGED <<remoteVars, monitorVars>>
    \/ \E c \in Calls : async_subscribe_to_broadcast_domains_change_notification(c)
       /\ UNCHANGED <<remoteVars, monitorVars>>
    \/ \E c \in Calls : AsyncSubscribeEnd(c)
       /\ UNCHANGED <<remoteVars, monitorVars>>
    \/ \E c \in Calls : async_unsubscribe(c)
       /\ UNCHANGED <<remoteVars, monitorVars>>
    \/ DispatchBegin(KindMessages)
       /\ UNCHANGED <<remoteVars, monitorVars>>
    \/ HandlerReturns
       /\ UNCHANGED <<remoteVars, monitorVars>>

SpecKinds == Init /\ [][NextKinds]_vars

----------------------------------------------------------------------------
\* The remote side of an ordered channel

\* What a request subscribes to or unsubscribes from.
RemoteSubscription(request) == <<request.session, request.notification_type>>

\* The status the remote side answers a request with: Ok or AlreadySubscribed
\* to subscribe=true, Ok to subscribe=false.
RemoteAnswer(subscriptions, request) ==
    IF request.subscribe /\ RemoteSubscription(request) \in subscriptions
    THEN "ALREADY_SUBSCRIBED"
    ELSE "OK"

\* The subscriptions the remote side holds after a request.
RemoteAfter(subscriptions, request) ==
    IF request.subscribe
    THEN subscriptions \cup {RemoteSubscription(request)}
    ELSE subscriptions \ {RemoteSubscription(request)}

\* The request call c sends in this step, if it sends one, reaches the remote
\* side after every request sent before it; the answer travels back behind
\* the answers to those.
RemoteReceives(c) ==
    IF sent'[c] = <<>>
    THEN UNCHANGED <<remote, wire>>
    ELSE /\ remote' = RemoteAfter(remote, sent'[c][1])
         /\ wire' = Append(wire, [call |-> c,
                                  status |-> RemoteAnswer(remote, sent'[c][1])])

\* The handlers subscribe calls have been given so far.
UsedCallbacks ==
    {token[2] : token \in issued}
        \cup {calls[c].callback : c \in {b \in Calls : calls[b].op = "subscribe"}}

\* A script subscribes a handler it has not subscribed before.
SubscribeDistinctHandler(c) ==
    /\ \/ async_subscribe_to_keystroke_notification(c)
       \/ async_subscribe_to_new_session_notification(c)
    /\ calls'[c].callback \notin UsedCallbacks
    /\ RemoteReceives(c)

\* A script passes a token it holds to async_unsubscribe.
UnsubscribeToRemote(c) ==
    /\ async_unsubscribe(c)
    /\ RemoteReceives(c)

\* The oldest answer in flight arrives and resumes the call that awaits it.
RemoteAnswerArrives ==
    /\ wire # <<>>
    /\ AsyncSubscribeResponse(Head(wire).call, Head(wire).status)
    /\ wire' = Tail(wire)
    /\ UNCHANGED remote

\* Scripts that subscribe to and unsubscribe from keystrokes and new sessions
\* while the remote side answers in order.
NextRemote ==
    \/ \E c \in Calls : SubscribeDistinctHandler(c)
       /\ UNCHANGED monitorVars
    \/ \E c \in Calls : UnsubscribeToRemote(c)
       /\ UNCHANGED monitorVars
    \/ RemoteAnswerArrives
       /\ UNCHANGED monitorVars

SpecRemote == Init /\ [][NextRemote]_vars

----------------------------------------------------------------------------
\* NewSessionMonitor

\* asyncio.Queue with no maxsize: put never waits, get takes the oldest item.
QueuePut(queue, item) == Append(queue, item)

QueueGet(queue) == [item |-> Head(queue), queue |-> Tail(queue)]

\* __aenter__ (lines 577-581) to the await of the subscribe request.
NewSessionMonitor__aenter__(m, c) ==
    /\ monitor[m].pc = "constructed"
    /\ AsyncSubscribeBegin(c, NOTIFY_ON_NEW_SESSION, MonitorCallback[m], None,
                           NoRpc, NoDetail, NoKey, NoDetail)
    /\ monitor' = [monitor EXCEPT ![m].pc = "entering", ![m].call = c]
    /\ UNCHANGED announced

\* __aexit__ (lines 589-590) to the await of the reverse request, or to its
\* return or raise when async_unsubscribe sends none.
NewSessionMonitor__aexit__(m, c) ==
    /\ monitor[m].pc = "entered"
    /\ async_unsubscribe(c)
    /\ calls'[c].token = monitor[m].token
    /\ monitor' = [monitor EXCEPT
           ![m].call = c,
           ![m].pc = IF calls'[c].pc = "await" THEN "exiting"
                     ELSE IF calls'[c].result = "ok" THEN "exited"
                     ELSE "exit_raised"]
    /\ UNCHANGED announced

\* The response a monitor awaits in __aenter__ or __aexit__ arrives.
MonitorCallResumes(m) ==
    LET c == monitor[m].call
    IN  /\ monitor[m].pc \in {"entering", "exiting"}
        /\ AsyncSubscribeEnd(c)
        /\ monitor' = [monitor EXCEPT
               ![m].pc = IF monitor[m].pc = "entering"
                         THEN IF calls'[c].result = "token" THEN "entered"
                                                            ELSE "enter_raised"
                         ELSE IF calls'[c].result = "ok" THEN "exited"
                                                         ELSE "exit_raised",
               ![m].token = IF monitor[m].pc = "entering"
                            THEN calls'[c].token
                            ELSE monitor[m].token]
        /\ UNCHANGED announced

\* async_get (lines 583-587): waits for an item, returns its uniqueIdentifier.
NewSessionMonitor_async_get(m) ==
    /\ monitor[m].pc \in {"entered", "exiting", "exited", "exit_raised"}
    /\ monitor[m].queue # <<>>
    /\ monitor' = [monitor EXCEPT
           ![m].queue = QueueGet(monitor[m].queue).queue,
           ![m].got = Append(monitor[m].got,
                             QueueGet(monitor[m].queue).item.uniqueIdentifier)]
    /\ calls' = SweptCalls
    /\ sent' = SweptSent
    /\ UNCHANGED <<handlers, pre, issued, live, requested, dpc, dmsg, dref, didx,
                   dsub, dstart, invoked, dreply, dret, dmutated, announced>>

\* The same script subscribes a handler of its own to new sessions, and
\* unsubscribes it.
ScriptSubscribes(c) ==
    /\ async_subscribe_to_new_session_notification(c)
    /\ UNCHANGED monitorVars

ScriptUnsubscribes(c) ==
    /\ async_unsubscribe(c)
    /\ calls'[c].callback \in Callbacks
    /\ UNCHANGED monitorVars

ScriptCallResumes(c) ==
    /\ \A m \in Monitors :
          ~(monitor[m].pc \in {"entering", "exiting"} /\ monitor[m].call = c)
    /\ AsyncSubscribeEnd(c)
    /\ UNCHANGED monitorVars

\* Whether awaiting the handler suspends the dispatcher: a monitor's callback
\* only puts the message on its queue, which never waits; a handler of the
\* script may wait.
Suspends(handler) == handler \in Callbacks

\* The position of the first handler after position idx that suspends the
\* dispatcher, Len(list) + 1 if there is none.
NextAwait(list, idx) ==
    IF \E j \in (idx + 1)..Len(list) : Suspends(list[j])
    THEN CHOOSE j \in (idx + 1)..Len(list) :
             /\ Suspends(list[j])
             /\ \A k \in (idx + 1)..(j - 1) : ~Suspends(list[k])
    ELSE Len(list) + 1

\* The loop of line 449 for a new-session message, from iterator position idx
\* to the next handler that suspends the dispatcher or to the return: the
\* callbacks of monitors met on the way run to completion.
MonitorDispatchLoop(message, ref, idx, sofar) ==
    LET list == ListOf(handlers, ref)
        stop == NextAwait(list, idx)
        ran == SubSeq(list, idx + 1, stop - 1)
    IN  /\ monitor' = [m \in Monitors |->
               IF MonitorCallback[m] \in Range(ran)
               THEN [monitor[m] EXCEPT !.queue = QueuePut(monitor[m].queue, message)]
               ELSE monitor[m]]
        /\ dreply' = <<>>
        /\ IF stop <= Len(list)
           THEN /\ invoked' = sofar \o ran \o <<list[stop]>>
                /\ didx' = stop
                /\ dpc' = "handler"
                /\ dret' = None
           ELSE /\ invoked' = sofar \o ran
                /\ didx' = IF idx < Len(list) THEN Len(list) ELSE idx
                /\ dpc' = "returned"
                /\ dret' = PyBool(list)

\* The remote side announces a new session: the transport hands the message
\* to _async_dispatch_helper, which runs to its first suspension.
NewSessionAnnounced ==
    /\ dpc \in {"idle", "returned"}
    /\ \E message \in NewSessionMessages :
        LET ref == _get_notification_handlers(handlers, message)
        IN  /\ message.uniqueIdentifier = Len(announced) + 1
            /\ dmsg' = message
            /\ dref' = ref
            /\ dsub' = IF ref = NoKey THEN None ELSE SubNotification(message)
            /\ dstart' = ListOf(handlers, ref)
            /\ dmutated' = FALSE
            /\ MonitorDispatchLoop(message, ref, 0, <<>>)
            /\ announced' = Append(announced,
                   [id |-> message.uniqueIdentifier,
                    entered |-> {m \in Monitors : monitor[m].pc = "entered"},
                    exited |-> {m \in Monitors : monitor[m].pc = "exited"}])
    /\ calls' = SweptCalls
    /\ sent' = SweptSent
    /\ UNCHANGED <<handlers, pre, issued, live, requested>>

\* The handler of the script that the dispatcher awaits completes.
ScriptHandlerReturns ==
    /\ dpc = "handler"
    /\ MonitorDispatchLoop(dmsg, dref, didx, invoked)
    /\ calls' = SweptCalls
    /\ sent' = SweptSent
    /\ UNCHANGED <<handlers, pre, issued, live, requested, dmsg, dref, dsub,
                   dstart, dmutated, announced>>

\* A script that uses NewSessionMonitor objects, and a handler of its own,
\* while the remote side announces new sessions.
NextMonitor ==
    \/ \E m \in Monitors, c \in Calls : NewSessionMonitor__aenter__(m, c)
       /\ UNCHANGED remoteVars
    \/ \E m \in Monitors, c \in Calls : NewSessionMonitor__aexit__(m, c)
       /\ UNCHANGED remoteVars
    \/ \E m \in Monitors : MonitorCallResumes(m)
       /\ UNCHANGED remoteVars
    \/ \E m \in Monitors : NewSessionMonitor_async_get(m)
       /\ UNCHANGED remoteVars
    \/ \E c \in Calls : ScriptSubscribes(c)
       /\ UNCHANGED remoteVars
    \/ \E c \in Calls : ScriptUnsubscribes(c)
       /\ UNCHANGED remoteVars
    \/ \E c \in Calls : ScriptCallResumes(c)
       /\ UNCHANGED remoteVars
    \/ NewSessionAnnounced
       /\ UNCHANGED remoteVars
    \/ ScriptHandlerReturns
       /\ UNCHANGED remoteVars

SpecMonitor == Init /\ [][NextMonitor]_vars

----------------------------------------------------------------------------
\* Vocabulary of the properties

\* s is a prefix of t
IsPrefix(s, t) == Len(s) <= Len(t) /\ SubSeq(t, 1, Len(s)) = s

\* The handlers registered under key in the registry (lookup of the spec).
Lookup(key) == IF key \in DOMAIN handlers THEN handlers[key] ELSE <<>>

\* The key of the message whose dispatch has just returned.
DispatchedKey == _get_handler_key_from_notification(dmsg)

\* A dispatch has returned during which no subscribe or unsubscribe call
\* changed the registry: the registry is the one the dispatch began with.
QuietDispatchReturned == dpc = "returned" /\ ~dmutated

\* The inbound message that reports the event a subscribe request asks for.
MatchingMessage(request) ==
    IF request.notification_type = NOTIFY_ON_VARIABLE_CHANGE
    THEN [field |-> "variable_changed_notification",
          scope |-> request.variable_monitor_request.scope,
          identifier |-> request.variable_monitor_request.identifier,
          name |-> request.variable_monitor_request.name]
    ELSE IF request.notification_type = NOTIFY_ON_PROFILE_CHANGE
    THEN [field |-> "profile_changed_notification",
          guid |-> request.profile_change_request.guid]
    ELSE [field |-> "broadcast_domains_changed"]

\* An RPC registration and an RPC invocation of the same name and the same
\* set of argument names.
SameRpc(registration, invocation) ==
    /\ registration.name = invocation.name
    /\ Range(registration.arguments) = Range(invocation.arguments)

\* Subscribe call c is completing in this step.
SubscribeReturns(c) ==
    /\ calls[c].pc = "await" /\ calls[c].subscribe
    /\ calls'[c].pc = "returned"

----------------------------------------------------------------------------
\* C1: when subscribe(K, h) is answered with a status other than OK or
\* ALREADY_SUBSCRIBED, the registry is again what it was just before the
\* call: the same keys, each with the same handlers in the same order.
\* (Stated for a call during which nothing else touched the registry.)
C1_FailedSubscribeRestoresRegistry ==
    [][\A c \in Calls :
         ( /\ SubscribeReturns(c)
           /\ calls'[c].result = "SubscriptionException"
           /\ pre[c].valid
           /\ handlers = LocalRegistration(pre[c].reg, TRUE,
                             calls[c].notification_type, calls[c].callback,
                             calls[c].session, calls[c].rpc, calls[c].key) )
         => handlers' = pre[c].reg]_vars

\* C2: the key of the token subscribe returns is the key under which the
\* handler was registered, for every notification type.
C2_TokenKeyIsRegisteredKey ==
    \A c \in Calls :
        (calls[c].op = "subscribe" /\ calls[c].result = "token")
        => calls[c].token[1] = RegisteredKey(calls[c])

\* C3: no registry key maps to an empty handler list.
C3_NoEmptyHandlerList ==
    \A key \in DOMAIN handlers : handlers[key] # <<>>

\* C4: a message of type T for session S, dispatched when no handler is
\* registered for (S, T) and some are for (None, T), invokes each handler of
\* (None, T) exactly once.
C4_FallbackInvokesGlobalHandlers ==
    LET key == DispatchedKey
        fallback == <<None, key[2]>>
    IN  ( /\ QuietDispatchReturned
          /\ Len(key) = 2 /\ key[1] # None
          /\ Lookup(key) = <<>>
          /\ Lookup(fallback) # <<>> )
        => invoked = Lookup(fallback)

\* C5: every handler in the matched list when the dispatch begins is invoked
\* exactly once, in registration order, whatever subscribe and unsubscribe
\* calls run while the dispatcher awaits a handler.  (Stated for lists of
\* distinct handlers; handlers added during the dispatch may follow.)
C5_DispatchInvokesListAtBegin ==
    (dpc = "returned" /\ Cardinality(Range(dstart)) = Len(dstart))
    => IsPrefix(dstart, invoked)

\* C6: from the return of its token until unsubscribe is called with that
\* token, the handler of a subscription stays in the registry list of its key.
C6_TokenKeepsHandlerRegistered ==
    \A e \in BagToSet(live) : e.token[2] \in Range(Lookup(e.key))

\* C7: an inbound ServerOriginatedRPC message whose signature has no
\* registered handler invokes no handler and gets exactly one error result
\* carrying its request id and naming its signature; one whose signature has
\* a registered handler gets no error result from the dispatcher.  (The second
\* half is stated for a dispatch during which the registry does not change.)
C7_UnmatchedRpcGetsOneErrorReply ==
    LET key == DispatchedKey
        error == [request_id |-> dmsg.request_id,
                  is_exception |-> TRUE,
                  function |-> _string_rpc_registration_request(dmsg.rpc),
                  key |-> key]
    IN  (dpc \in {"reply", "returned"}
         /\ dmsg.field = "server_originated_rpc_notification")
        => /\ dstart = <<>> => (invoked = <<>> /\ dreply = <<error>>)
           /\ ~dmutated => (dstart = <<>> <=> Lookup(key) = <<>>)
           /\ (~dmutated /\ dstart # <<>>)
              => (dreply = <<>> /\ invoked = Lookup(key))

\* An RPC nobody registered is invoked while another one is registered.
C7_Witness ==
    /\ dpc = "returned"
    /\ dmsg.field = "server_originated_rpc_notification"
    /\ Lookup(DispatchedKey) = <<>>
    /\ Len(dreply) = 1
    /\ invoked = <<>>
    /\ \E key \in DOMAIN handlers : handlers[key] # <<>>

\* C8: for a default-shape key (S, T) with the single handler h, a matching
\* message invokes h exactly once; unsubscribe(token) answered OK has sent
\* exactly one subscribe=false request for (S, T); and once the token has been
\* passed to unsubscribe a matching message invokes h zero times.
C8_SubscribeDispatchUnsubscribe ==
    /\ \A h \in Callbacks :
         (QuietDispatchReturned /\ Len(DispatchedKey) = 2
          /\ Lookup(DispatchedKey) = <<h>>)
         => invoked = <<h>>
    /\ \A c \in Calls :
         (calls[c].op = "unsubscribe" /\ calls[c].pc = "returned"
          /\ calls[c].status = "OK" /\ Len(calls[c].token[1]) = 2)
         => /\ calls[c].result = "ok"
            /\ sent[c] = <<[subscribe |-> FALSE,
                            notification_type |-> calls[c].token[1][2],
                            session |-> IF calls[c].token[1][1] = None
                                        THEN "all" ELSE calls[c].token[1][1],
                            rpc_registration_request |-> NoRpc,
                            variable_monitor_request |-> NoDetail,
                            profile_change_request |-> NoDetail]>>
            /\ \/ calls[c].token[2] \notin Range(Lookup(calls[c].token[1]))
               \/ \E e \in BagToSet(live) : e.token = calls[c].token
               \/ \E b \in Calls : (calls[b].pc = "await" /\ calls[b].subscribe
                                    /\ calls[b].callback = calls[c].token[2])
    /\ \A h \in Callbacks :
         ( /\ QuietDispatchReturned
           /\ Len(DispatchedKey) = 2
           /\ <<DispatchedKey, h>> \in issued
           /\ \A e \in BagToSet(live) : e.token[2] # h
           /\ \A b \in Calls : ~ (calls[b].pc = "await" /\ calls[b].subscribe
                                    /\ calls[b].callback = h) )
         => h \notin Range(invoked)

\* A keystroke for S1 arrives after the subscription of h1 to (S1, keystroke)
\* has been reversed: nothing is invoked.
C8_Witness ==
    /\ QuietDispatchReturned
    /\ DispatchedKey = <<"S1", NOTIFY_ON_KEYSTROKE>>
    /\ <<DispatchedKey, "h1">> \in issued
    /\ live = EmptyBag
    /\ \A c \in Calls : calls[c].op = "finished"
    /\ invoked = <<>>

\* C9: with two distinct handlers under one key, unsubscribe with the token
\* of one removes that handler only, sends no wire request and returns, and
\* the other handler is still invoked by the next matching message.
C9_UnsubscribeLeavesOtherHandler ==
    /\ [][\A c \in Calls :
           (calls[c].op = "none" /\ calls'[c].op = "unsubscribe")
           => LET key == calls'[c].token[1]
                  coro == calls'[c].token[2]
                  list == Lookup(key)
              IN  (coro \in Range(list) /\ Range(list) # {coro})
                  => /\ DOMAIN handlers' = DOMAIN handlers
                     /\ \A k \in DOMAIN handlers \ {key} :
                            handlers'[k] = handlers[k]
                     /\ \E i \in 1..Len(list) :
                            /\ list[i] = coro
                            /\ handlers'[key] = SubSeq(list, 1, i - 1)
                                                \o SubSeq(list, i + 1, Len(list))
                     /\ sent'[c] = <<>>
                     /\ calls'[c].pc = "returned"
                     /\ calls'[c].result = "ok"]_vars
    /\ [](QuietDispatchReturned
          => \A h \in Range(Lookup(DispatchedKey)) : h \in Range(invoked))

\* unsubscribe has just removed h1 and left h2 under the key.
C9_Witness ==
    \E c \in Calls :
        /\ calls[c].op = "unsubscribe" /\ calls[c].pc = "returned"
        /\ calls[c].result = "ok" /\ sent[c] = <<>>
        /\ calls[c].token[2] = "h1"
        /\ Lookup(calls[c].token[1]) = <<"h2">>

\* C10: a subscribe answered ALREADY_SUBSCRIBED returns a token and leaves its
\* handler registered; with two handlers under the key of a message, the
\* message invokes both.
C10_AlreadySubscribedIsSuccess ==
    /\ [][\A c \in Calls :
           (SubscribeReturns(c) /\ calls'[c].status = "ALREADY_SUBSCRIBED")
           => /\ calls'[c].result = "token"
              /\ calls'[c].token = <<<<calls[c].session,
                                       calls[c].notification_type>>,
                                     calls[c].callback>>
              /\ handlers' = handlers]_vars
    /\ [](\A c \in Calls :
            (calls[c].op = "subscribe" /\ calls[c].pc = "returned"
             /\ calls[c].status = "ALREADY_SUBSCRIBED")
            => calls[c].token \in issued)
    /\ []((QuietDispatchReturned /\ Len(Lookup(DispatchedKey)) >= 2)
          => invoked = Lookup(DispatchedKey))

\* The second subscribe on a key has just been answered ALREADY_SUBSCRIBED and
\* both handlers are registered.
C10_Witness ==
    \E c \in Calls :
        /\ calls[c].op = "subscribe" /\ calls[c].pc = "returned"
        /\ calls[c].status = "ALREADY_SUBSCRIBED" /\ calls[c].result = "token"
        /\ Lookup(calls[c].token[1]) = <<"h1", "h2">>
        /\ calls[c].callback = "h2"

\* C11: subscribe adds the handler to the registry in the step that sends the
\* subscribe request, before the response is awaited; a matching message
\* dispatched while the response is outstanding is delivered to the handler
\* (as long as no other call has removed the handler again).
C11_RegisteredBeforeRequestIsSent ==
    /\ [][\A c \in Calls :
           (calls[c].op = "none" /\ calls'[c].op = "subscribe"
            /\ sent'[c] # <<>>)
           => LET key == RegisteredKey(calls'[c])
              IN  /\ calls'[c].pc = "await"
                  /\ Len(sent'[c]) = 1 /\ sent'[c][1].subscribe
                  /\ key \in DOMAIN handlers'
                  /\ handlers'[key] = Append(Lookup(key), calls'[c].callback)]_vars
    /\ [](\A c \in Calls :
            ( /\ QuietDispatchReturned
              /\ calls[c].pc = "await" /\ calls[c].subscribe
              /\ DispatchedKey = RegisteredKey(calls[c])
              /\ calls[c].callback \in Range(Lookup(DispatchedKey)) )
            => calls[c].callback \in Range(invoked))

\* A keystroke for S1 has been delivered to h1 while the subscribe call for
\* (S1, keystroke) with h1, the only call made, awaits its response.
C11_Witness ==
    /\ QuietDispatchReturned
    /\ DispatchedKey = <<"S1", NOTIFY_ON_KEYSTROKE>>
    /\ invoked = <<"h1">>
    /\ calls[1].pc = "await" /\ calls[1].subscribe /\ calls[1].callback = "h1"
    /\ calls[1].session = "S1"
    /\ calls[2].op = "none"
    /\ issued = {}

\* C12: when unsubscribe removes the last handler of a key and the reverse
\* request is answered with a status other than OK, unsubscribe raises a
\* SubscriptionException for that status and leaves the registry as it is:
\* the key was deleted before the request was sent and is not put back.
C12_RefusedUnsubscribeStaysRemoved ==
    /\ [][\A c \in Calls :
           (calls[c].op = "none" /\ calls'[c].op = "unsubscribe"
            /\ calls'[c].pc = "await")
           => /\ Lookup(calls'[c].token[1]) = <<calls'[c].token[2]>>
              /\ calls'[c].token[1] \notin DOMAIN handlers'
              /\ Len(sent'[c]) = 1 /\ ~sent'[c][1].subscribe]_vars
    /\ [][\A c \in Calls :
           (calls[c].op = "unsubscribe" /\ calls[c].pc = "await"
            /\ calls'[c].pc = "returned" /\ calls'[c].status # "OK")
           => /\ calls'[c].result = "SubscriptionException"
              /\ calls'[c].status \in Statuses
              /\ handlers' = handlers]_vars

\* The unsubscribe of the only handler of (S1, keystroke) has been refused:
\* it raised and the key is absent.
C12_Witness ==
    \E c \in Calls :
        /\ calls[c].op = "unsubscribe" /\ calls[c].pc = "returned"
        /\ calls[c].status = "REQUEST_MALFORMED"
        /\ calls[c].result = "SubscriptionException"
        /\ calls[c].token = <<<<"S1", NOTIFY_ON_KEYSTROKE>>, "h1">>
        /\ handlers = EmptyRegistry

\* C13: unsubscribe with a token whose handler is not registered under the
\* token's key (the token was unsubscribed before) leaves the registry
\* unchanged and returns without an error.
C13_RepeatedUnsubscribeIsNoOp ==
    [][\A c \in Calls :
         (calls[c].op = "none" /\ calls'[c].op = "unsubscribe"
          /\ calls'[c].token[2] \notin Range(Lookup(calls'[c].token[1])))
         => /\ handlers' = handlers
            /\ calls'[c].pc = "returned"
            /\ calls'[c].result = "ok"]_vars

C15_BadDefaultsFailLocally ==
    /\ [](\A c \in Calls :
            (sent[c] # <<>> /\ sent[c][1].rpc_registration_request # NoRpc)
            => \A name \in sent[c][1].rpc_registration_request.defaults :
                 \E i \in 1..Len(sent[c][1].rpc_registration_request.arguments) :
                    sent[c][1].rpc_registration_request.arguments[i] = name)
    /\ [][\A c \in Calls :
           (calls[c].op = "none" /\ calls'[c].op = "subscribe"
            /\ sent'[c] = <<>>)
           => /\ handlers' = handlers
              /\ calls'[c].pc = "returned"
              /\ calls'[c].result = "AssertionError"
              /\ issued' = issued]_vars

\* A registration with a default for c, which is not an argument, has just
\* raised while another registration is in the registry.
C15_Witness ==
    \E c \in Calls :
        /\ calls[c].op = "subscribe" /\ calls[c].pc = "returned"
        /\ calls[c].notification_type = NOTIFY_ON_SERVER_ORIGINATED_RPC
        /\ calls[c].result = "AssertionError"
        /\ sent[c] = <<>>
        /\ handlers # EmptyRegistry

\* C16: for every notification type with an inbound message kind, a subscribe
\* call the remote side does not refuse returns a token, and its handler is
\* registered under the key the dispatcher derives from the matching message
\* (for a variable monitor without identifier, the message with the empty
\* identifier; for a profile, the key (guid, ProfileChange)), so that the
\* message invokes the handler.
C16_SubscribeKeyIsDispatchKey ==
    /\ \A c \in Calls :
         (calls[c].op = "subscribe" /\ calls[c].pc = "returned"
          /\ calls[c].result # "SubscriptionException")
         => /\ calls[c].result = "token"
            /\ RegisteredKey(calls[c]) =
                   _get_handler_key_from_notification(MatchingMessage(sent[c][1]))
    /\ \A q \in requested :
         ( /\ QuietDispatchReturned
           /\ dmsg = MatchingMessage(q.request)
           /\ q.token[2] \in Range(Lookup(q.token[1])) )
         => q.token[2] \in Range(invoked)

\* C17: a message invokes the handlers of its own key when there are any,
\* else those of the key (None, type), and no others: never the handlers of
\* another session, never the handlers of (None, type) when its own key has
\* handlers, and a message with a key (None, type) only the handlers of that key.
C17_FallbackOnlyOnMiss ==
    QuietDispatchReturned
    => LET key == DispatchedKey
           fallback == <<None, key[2]>>
       IN  /\ Lookup(key) # <<>> => invoked = Lookup(key)
           /\ key[1] = None => invoked = Lookup(key)
           /\ invoked \in {Lookup(key), Lookup(fallback)}
           /\ \A k \in DOMAIN handlers \ {key, fallback} :
                 \A h \in Range(handlers[k]) :
                    h \notin Range(Lookup(key)) \cup Range(Lookup(fallback))
                    => h \notin Range(invoked)

\* h1 is registered for S1 and h2 for all sessions: a keystroke for S1 has
\* invoked h1 only.
C17_Witness ==
    /\ QuietDispatchReturned
    /\ DispatchedKey = <<"S1", NOTIFY_ON_KEYSTROKE>>
    /\ Lookup(<<"S1", NOTIFY_ON_KEYSTROKE>>) = <<"h1">>
    /\ Lookup(<<None, NOTIFY_ON_KEYSTROKE>>) = <<"h2">>
    /\ invoked = <<"h1">>

\* h1 is registered for S1 and h2 for all sessions: a keystroke for S2 has
\* invoked h2 only.
C17_WitnessOtherSession ==
    /\ QuietDispatchReturned
    /\ DispatchedKey = <<"S2", NOTIFY_ON_KEYSTROKE>>
    /\ Lookup(<<"S1", NOTIFY_ON_KEYSTROKE>>) = <<"h1">>
    /\ Lookup(<<None, NOTIFY_ON_KEYSTROKE>>) = <<"h2">>
    /\ invoked = <<"h2">>

\* C18: an RPC invocation invokes exactly the handlers registered for the
\* same name and the same set of argument names, in whatever order the
\* registration and the invocation list the names.
C18_SignatureIgnoresArgumentOrder ==
    (QuietDispatchReturned /\ dmsg.field = "server_originated_rpc_notification")
    => Range(invoked) =
          {q.token[2] : q \in {r \in requested :
              SameRpc(r.request.rpc_registration_request, dmsg.rpc)}}
          \cup
          {calls[c].callback : c \in {b \in Calls :
              /\ calls[b].pc = "await" /\ calls[b].subscribe
              /\ SameRpc(calls[b].rpc, dmsg.rpc)}}

\* h1 was registered for f with arguments (a, b); the invocation of f with
\* (b, a) has invoked h1.
C18_Witness ==
    /\ QuietDispatchReturned
    /\ dmsg.field = "server_originated_rpc_notification"
    /\ dmsg.rpc.name = <<"f">>
    /\ dmsg.rpc.arguments = << <<"b">>, <<"a">> >>
    /\ invoked = <<"h1">>
    /\ \E q \in requested :
          /\ q.token[2] = "h1"
          /\ q.request.rpc_registration_request.arguments = << <<"a">>, <<"b">> >>
    /\ \A q \in requested :
          q.request.rpc_registration_request.arguments = << <<"a">>, <<"b">> >>
    /\ \A c \in Calls : calls[c].pc # "await"

\* Nothing is invoked by f(ab) or by g(a, b) although f(a, b) is registered.
C18_WitnessOtherSignature ==
    /\ QuietDispatchReturned
    /\ dmsg.field = "server_originated_rpc_notification"
    /\ dmsg.rpc.arguments # << <<"b">>, <<"a">> >>
    /\ requested # {}
    /\ invoked = <<>>

\* C19: the reverse request of an unsubscribe carries subscribe=false; for a
\* key (scope, type) it carries the key's type and the key's scope (the
\* session, or "all" for None), as the subscribe request did; for a
\* variable-change key it carries the VariableMonitorRequest, with the scope,
\* identifier and name, of the subscribe request that produced the token.
C19_ReverseRequestMirrorsSubscribe ==
    \A c \in Calls :
        (calls[c].op = "unsubscribe" /\ sent[c] # <<>>)
        => LET r == sent[c][1]
               key == calls[c].token[1]
               made == {q.request : q \in {p \in requested :
                                               p.token = calls[c].token}}
           IN  /\ Len(sent[c]) = 1
               /\ ~r.subscribe
               /\ made # {}
               /\ Len(key) = 2
                  => /\ r.notification_type = key[2]
                     /\ r.session = IF key[1] = None THEN "all" ELSE key[1]
                     /\ r.variable_monitor_request = NoDetail
                     /\ key[2] # NOTIFY_ON_PROFILE_CHANGE
                        => \A q \in made :
                             /\ r.session = q.session
                             /\ r.notification_type = q.notification_type
               /\ Len(key) = 4
                  => \A q \in made :
                       /\ r.notification_type = q.notification_type
                       /\ r.session = q.session
                       /\ r.variable_monitor_request.scope =
                              q.variable_monitor_request.scope
                       /\ r.variable_monitor_request.identifier =
                              q.variable_monitor_request.identifier
                       /\ r.variable_monitor_request.name =
                              q.variable_monitor_request.name

\* The unsubscribe of the monitor of jobName in the object id1 awaits the
\* response to its reverse request.
C19_Witness ==
    \E c \in Calls :
        /\ calls[c].op = "unsubscribe" /\ calls[c].pc = "await"
        /\ Len(calls[c].token[1]) = 4
        /\ sent[c][1].variable_monitor_request.identifier = "id1"
        /\ sent[c][1].variable_monitor_request.name = "jobName"

\* The unsubscribe of a broadcast-domains subscription awaits the response to
\* its reverse request.
C19_WitnessDefaultShape ==
    \E c \in Calls :
        /\ calls[c].op = "unsubscribe" /\ calls[c].pc = "await"
        /\ calls[c].token[1] = <<None, NOTIFY_ON_BROADCAST_CHANGE>>
        /\ sent[c][1].session = "all"

\* C20: every handler the dispatcher invokes is passed the sub-notification
\* held in the field of the message's kind, never the enclosing notification.
C20_HandlersGetSubNotification ==
    (dpc \in {"handler", "returned"} /\ invoked # <<>>)
    => (dsub = dmsg.field /\ dsub # Wrapper)

\* C21: _async_dispatch_helper returns True exactly when it invoked at least
\* one handler for the message, and False otherwise; a message of a kind that
\* is not recognised invokes no handler, sends no reply and returns False.
C21_DispatchReturnsWhetherInvoked ==
    /\ dpc = "returned" => (dret = "True" <=> invoked # <<>>)
    /\ (dpc # "idle" /\ dmsg.field = "other_notification")
       => /\ dpc = "returned"
          /\ invoked = <<>>
          /\ dreply = <<>>
          /\ dret = "False"

\* The default-shape keys of the subscriptions made.
DefaultShapeKeys ==
    {<<session, NOTIFY_ON_KEYSTROKE>> : session \in Sessions \cup {None}}
        \cup {<<None, NOTIFY_ON_NEW_SESSION>>}

\* Every call made so far has returned or raised.
AllCallsCompleted ==
    /\ wire = <<>>
    /\ \A c \in Calls : calls[c].pc # "await"

\* C22: with an ordered channel, a remote side that answers subscribe=true
\* with Ok or AlreadySubscribed and subscribe=false with Ok, and distinct
\* handlers: once every subscribe and unsubscribe call on a default-shape key
\* has completed, the remote side is subscribed to the key if and only if the
\* registry holds at least one handler for it.
C22_RemoteAgreesWithRegistry ==
    AllCallsCompleted
    => \A key \in DefaultShapeKeys :
          (<<TransformedSession(key[1]), key[2]>> \in remote)
              <=> Lookup(key) # <<>>

\* Every call has completed, a handler has been unsubscribed with a reverse
\* request, and another handler holds the same key, subscribed afterwards.
C22_Witness ==
    /\ AllCallsCompleted
    /\ \E token \in issued :
        /\ token[2] \notin Range(Lookup(token[1]))
        /\ Lookup(token[1]) # <<>>
        /\ <<TransformedSession(token[1][1]), token[1][2]>> \in remote
        /\ \A other \in issued : other[1] = token[1]

\* Every call has completed and the last handler of a key is gone.
C22_WitnessUnsubscribed ==
    /\ AllCallsCompleted
    /\ remote = {}
    /\ handlers = EmptyRegistry
    /\ issued # {}

\* The identifiers put on the queue of monitor m so far, in order: those
\* async_get has returned, then those still queued.
Enqueued(m) ==
    monitor[m].got
        \o [i \in 1..Len(monitor[m].queue) |-> monitor[m].queue[i].uniqueIdentifier]

\* The dispatch of the i-th announcement has returned.
DispatchDone(i) == i < Len(announced) \/ dpc \in {"idle", "returned"}

\* C23: while a NewSessionMonitor is entered, every new-session notification
\* dispatched is enqueued exactly once, and async_get returns the session
\* identifiers in the order of dispatch, none lost or duplicated; after the
\* monitor has exited with a successful unsubscribe, a notification
\* dispatched later is not enqueued.
C23_MonitorQueuesEachNewSession ==
    \A m \in Monitors :
        /\ \A i \in 1..Len(announced) :
              (/\ DispatchDone(i)
               /\ m \in announced[i].entered
               /\ monitor[m].pc = "entered")
              => Cardinality({j \in DOMAIN Enqueued(m) :
                                 Enqueued(m)[j] = announced[i].id}) = 1
        /\ \A j, k \in DOMAIN Enqueued(m) :
              j < k => Enqueued(m)[j] < Enqueued(m)[k]
        /\ \A i \in 1..Len(announced) :
              m \in announced[i].exited
              => announced[i].id \notin Range(Enqueued(m))

====
